---- MODULE Spec2Model ----
(***************************************************************************)
(* cargo-apple: the command dispatch of Input::exec                        *)
(* (src/bin/cargo-apple.rs).  One invocation of the binary is one          *)
(* behaviour: the command line and the file system are fixed by Init, and  *)
(* every action is one call into a collaborator (its outcome drawn with    *)
(* \E) together with the code that follows it up to the next call.         *)
(* `log` records the collaborator calls in the order they are made,        *)
(* `compiled` the overlay handed to each compile_lib call.                 *)
(* noise_level, non_interactive, force_color and the text wrapper are      *)
(* passed through to the collaborators unchanged and are left out.         *)
(***************************************************************************)
EXTENDS Integers, Sequences, FiniteSets, TLC

VARIABLES command, dirs, project_dir_exists, pc, log, result,
          targets, queue, device, host_env, compiled

vars == <<command, dirs, project_dir_exists, pc, log, result,
          targets, queue, device, host_env, compiled>>

\* Longest list of target keys on the command line.
MaxKeys == 2
\* Longest ARCHS list handed over by Xcode.
MaxArches == 2

(***************************************************************************)
(* Target registry and device resolver (library side of the crate).        *)
(***************************************************************************)
NoTarget == "<none>"

DEFAULT_KEY == "aarch64"

Registry ==
  << [key |-> "aarch64", arch |-> "arm64"],
     [key |-> "x86_64", arch |-> "x86_64"] >>

name_list == [i \in 1..Len(Registry) |-> Registry[i].key]

for_name(key) ==
  IF \E i \in 1..Len(Registry) : Registry[i].key = key THEN key ELSE NoTarget

for_arch(arch) ==
  IF \E i \in 1..Len(Registry) : Registry[i].arch = arch
  THEN Registry[CHOOSE i \in 1..Len(Registry) : Registry[i].arch = arch].key
  ELSE NoTarget

macos_target == "macos"

\* Devices the enumeration can report, each with its target.
Devices == {"iPhone", "Simulator"}

device_target(d) == IF d = "iPhone" THEN "aarch64" ELSE "x86_64"

\* Ways device_prompt can fail (enumeration error, no device, prompt failure).
PromptErrors == {"DetectionFailed", "NoneDetected", "PromptFailed"}

\* Outcomes of one device_prompt(env) call: Ok(device) or Err(PromptError).
DeviceOutcomes ==
  {[ok |-> TRUE, val |-> d] : d \in Devices} \cup
  {[ok |-> FALSE, val |-> e] : e \in PromptErrors}

(***************************************************************************)
(* Results and events.                                                     *)
(***************************************************************************)
NoResult == [tag |-> "None", arg |-> ""]
OkResult == [tag |-> "Ok", arg |-> ""]
Err(tag, arg) == [tag |-> tag, arg |-> arg]

Ev(op, arg, ok, profile) == [op |-> op, arg |-> arg, ok |-> ok, profile |-> profile]

project_dir == "./gen/apple"

(***************************************************************************)
(* Argument parsers.                                                       *)
(***************************************************************************)
macos_from_platform(platform) == platform = "macOS"

profile_from_configuration(configuration) ==
  IF configuration = "release" THEN "Release" ELSE "Debug"

(***************************************************************************)
(* Paths: PathBuf::join appends a component without normalising,           *)
(* display() prints the path as it is.                                     *)
(***************************************************************************)
Join(p, s) == p \o "/" \o s

IncludeDir(sdk_root) == Join(sdk_root, "usr/include")

MacosSdkRoot(sdk_root) ==
  Join(sdk_root, "../../../../MacOSX.platform/Developer/SDKs/MacOSX.sdk")

is_dir(p) == p \in dirs

Isysroot(p) == "-isysroot " \o p

\* HashMap::insert: adds the key or replaces its value.
Insert(m, k, v) == [x \in DOMAIN m \cup {k} |-> IF x = k THEN v ELSE m[x]]

EmptyMap == [x \in {} |-> ""]

(***************************************************************************)
(* xcode-script: path validation and the two overlays.                     *)
(***************************************************************************)
\* Variant of ValidatePaths that checks usr/include before the SDK root.
ValidatePathsIncludeFirst(sdk_root) ==
  IF ~is_dir(IncludeDir(sdk_root))
  THEN Err("IncludeDirInvalid", IncludeDir(sdk_root))
  ELSE IF ~is_dir(sdk_root)
  THEN Err("SdkRootInvalid", sdk_root)
  ELSE IF ~is_dir(MacosSdkRoot(sdk_root))
  THEN Err("MacosSdkRootInvalid", MacosSdkRoot(sdk_root))
  ELSE OkResult

\* Variant of ValidatePaths that asks for the host SDK root only when the
\* build is not for the host platform.
ValidatePathsHostOptional(sdk_root) ==
  IF ~is_dir(sdk_root)
  THEN Err("SdkRootInvalid", sdk_root)
  ELSE IF ~is_dir(IncludeDir(sdk_root))
  THEN Err("IncludeDirInvalid", IncludeDir(sdk_root))
  ELSE IF ~macos_from_platform(command.platform) /\ ~is_dir(MacosSdkRoot(sdk_root))
  THEN Err("MacosSdkRootInvalid", MacosSdkRoot(sdk_root))
  ELSE OkResult

\* The three early returns of the xcode-script closure, in source order.
ValidatePaths(sdk_root) ==
  IF ~is_dir(sdk_root)
  THEN Err("SdkRootInvalid", sdk_root)
  ELSE IF ~is_dir(IncludeDir(sdk_root))
  THEN Err("IncludeDirInvalid", IncludeDir(sdk_root))
  ELSE IF ~is_dir(MacosSdkRoot(sdk_root))
  THEN Err("MacosSdkRootInvalid", MacosSdkRoot(sdk_root))
  ELSE OkResult

\* Host flags that are used by build scripts.
HostEnv(sdk_root) ==
  LET macos_isysroot == Isysroot(MacosSdkRoot(sdk_root))
      e1 == Insert(EmptyMap, "MAC_FLAGS", macos_isysroot)
      e2 == Insert(e1, "CFLAGS_x86_64_apple_darwin", macos_isysroot)
      e3 == Insert(e2, "CXXFLAGS_x86_64_apple_darwin", macos_isysroot)
      e4 == Insert(e3, "OBJC_INCLUDE_PATH_x86_64_apple_darwin", IncludeDir(sdk_root))
  IN  Insert(e4, "RUST_BACKTRACE", "1")

NoTriple == "<none>"

\* Variant of TripleOf that lets the 32-bit ARM name through.
TripleOfLenient(arch) ==
  CASE arch = "arm64" -> "aarch64_apple_ios"
    [] arch = "x86_64" -> "x86_64_apple_ios"
    [] arch = "armv7" -> "armv7_apple_ios"
    [] OTHER -> NoTriple

\* match arch.as_str() { "arm64" => .., "x86_64" => .., _ => ArchInvalid }
TripleOf(arch) ==
  CASE arch = "arm64" -> "aarch64_apple_ios"
    [] arch = "x86_64" -> "x86_64_apple_ios"
    [] OTHER -> NoTriple

\* Variant of TargetEnv that starts from an empty map instead of a clone of
\* the host overlay.
TargetEnvNoClone(host, triple, sdk_root) ==
  LET cflags == "CFLAGS_" \o triple
      cxxflags == "CFLAGS_" \o triple
      objc_include_path == "OBJC_INCLUDE_PATH_" \o triple
      t1 == Insert(EmptyMap, cflags, Isysroot(sdk_root))
      t2 == Insert(t1, cxxflags, Isysroot(sdk_root))
  IN  Insert(t2, objc_include_path, IncludeDir(sdk_root))

\* Set target-specific flags: the overlay handed to compile_lib.
TargetEnv(host, triple, sdk_root) ==
  LET cflags == "CFLAGS_" \o triple
      cxxflags == "CFLAGS_" \o triple
      objc_include_path == "OBJC_INCLUDE_PATH_" \o triple
      t1 == Insert(host, cflags, Isysroot(sdk_root))
      t2 == Insert(t1, cxxflags, Isysroot(sdk_root))
  IN  Insert(t2, objc_include_path, IncludeDir(sdk_root))

(***************************************************************************)
(* Helpers of exec.                                                        *)
(***************************************************************************)
\* Variant of detect_target_ok that never reports a device.
detect_target_ok_never(outcome) == NoTarget

\* device_prompt(env).map(|device| device.target()).ok()
detect_target_ok(outcome) ==
  IF outcome.ok THEN device_target(outcome.val) ELSE NoTarget

\* Variant of ensure_init that accepts a missing project directory.
ensure_init_always(exists) == OkResult

ensure_init(exists) ==
  IF ~exists THEN Err("ProjectDirAbsent", project_dir) ELSE OkResult

\* The commands whose closure starts with ensure_init(config)?.
EnsuresInit(cmd) == cmd \in {"open", "build", "archive", "run"}

\* The commands that go through with_config_and_metadata.
LoadsMetadata(cmd) == cmd \in {"check", "xcode-script"}

(***************************************************************************)
(* Target selection (library): explicit keys, else the detected device,    *)
(* else every target of the registry.                                      *)
(***************************************************************************)
RECURSIVE Dedup(_)
Dedup(s) ==
  IF s = <<>> THEN <<>>
  ELSE LET front == Dedup(SubSeq(s, 1, Len(s) - 1))
           last == s[Len(s)]
       IN  IF \E i \in 1..Len(front) : front[i] = last
           THEN front ELSE Append(front, last)

UsesFallback(keys) == \A i \in 1..Len(keys) : keys[i] = DEFAULT_KEY

HasInvalidKey(keys) == \E i \in 1..Len(keys) : for_name(keys[i]) = NoTarget

FirstInvalidKey(keys) ==
  keys[CHOOSE i \in 1..Len(keys) :
         /\ for_name(keys[i]) = NoTarget
         /\ \A j \in 1..(i - 1) : for_name(keys[j]) # NoTarget]

(***************************************************************************)
(* Command lines and file systems of one invocation.                       *)
(***************************************************************************)
SeqsUpTo(S, n) == UNION {[1..k -> S] : k \in 1..n}

\* structopt restricts the keys to Target::name_list() and supplies
\* DEFAULT_KEY when none is given, so the list is never empty.
KeyLists == SeqsUpTo({name_list[i] : i \in 1..Len(name_list)}, MaxKeys)

\* ARCHS is required, so the list is never empty.
ArchNames == {"arm64", "x86_64", "armv7"}
ArchLists == SeqsUpTo(ArchNames, MaxArches)

Platforms == {"macOS", "iOS"}
Configurations == {"release", "debug"}
Profiles == {"Debug", "Release"}
SdkRoots == {"/sdk"}

Cmd(cmd, keys, profile, platform, sdk_root, configuration, arches, open) ==
  [cmd |-> cmd, targets |-> keys, profile |-> profile, platform |-> platform,
   sdk_root |-> sdk_root, configuration |-> configuration, arches |-> arches,
   open_in_editor |-> open]

Commands ==
  {Cmd("init", <<>>, "", "", "", "", <<>>, o) : o \in BOOLEAN} \cup
  {Cmd("open", <<>>, "", "", "", "", <<>>, FALSE)} \cup
  {Cmd("check", k, "", "", "", "", <<>>, FALSE) : k \in KeyLists} \cup
  {Cmd(c[1], c[2], c[3], "", "", "", <<>>, FALSE) :
     c \in {"build", "archive"} \X KeyLists \X Profiles} \cup
  {Cmd("run", <<>>, p, "", "", "", <<>>, FALSE) : p \in Profiles} \cup
  {Cmd("list", <<>>, "", "", "", "", <<>>, FALSE)} \cup
  {Cmd("xcode-script", <<>>, "", x[1], x[2], x[3], x[4], FALSE) :
     x \in Platforms \X SdkRoots \X Configurations \X ArchLists}

\* usr/include and the sibling SDK are reached through the SDK root, so
\* neither is a directory unless the SDK root is one.
FileSystems ==
  {d \in SUBSET UNION {{r, IncludeDir(r), MacosSdkRoot(r)} : r \in SdkRoots} :
     \A r \in SdkRoots :
        (IncludeDir(r) \in d \/ MacosSdkRoot(r) \in d) => r \in d}

\* The profile the stages of this command are called with.
Profile ==
  IF command.cmd = "xcode-script"
  THEN profile_from_configuration(command.configuration)
  ELSE command.profile

Init ==
  /\ command \in Commands
  /\ dirs \in FileSystems
  /\ project_dir_exists \in BOOLEAN
  /\ pc = "start"
  /\ log = <<>>
  /\ result = NoResult
  /\ targets = <<>>
  /\ queue = <<>>
  /\ device = ""
  /\ host_env = EmptyMap
  /\ compiled = <<>>

Finish(r) == pc' = "done" /\ result' = r

Goto(p) == pc' = p /\ result' = result

\* Enter a loop over `list`; an empty list ends the command with Ok.
StartLoop(list, p) ==
  /\ queue' = list
  /\ IF list = <<>> THEN Finish(OkResult) ELSE Goto(p)

\* The closure returned Ok for the head of the queue: next element, or Ok.
Advance(p) ==
  /\ queue' = Tail(queue)
  /\ IF Tail(queue) = <<>> THEN Finish(OkResult) ELSE Goto(p)

(***************************************************************************)
(* exec: one action per collaborator call.                                 *)
(***************************************************************************)
\* let env = Env::new().map_err(Error::EnvInitFailed)?; match command { .. }
EnvNew ==
  /\ pc = "start"
  /\ \E ok \in BOOLEAN :
       /\ log' = Append(log, Ev("env_new", "", ok, ""))
       /\ IF ~ok THEN Finish(Err("EnvInitFailed", ""))
          ELSE Goto(CASE command.cmd = "init" -> "init_exec"
                      [] command.cmd = "list" -> "device_list"
                      [] OTHER -> "load_or_gen")
  /\ UNCHANGED <<command, dirs, project_dir_exists, targets, queue, device,
                 host_env, compiled>>

\* Command::Init: init::exec, then open_in_xcode when --open was given.
InitExec ==
  /\ pc = "init_exec"
  /\ \E ok \in BOOLEAN :
       /\ log' = Append(log, Ev("init_exec", "", ok, ""))
       /\ IF ~ok THEN Finish(Err("InitFailed", ""))
          ELSE IF command.open_in_editor THEN Goto("open_in_xcode")
          ELSE Finish(OkResult)
  /\ UNCHANGED <<command, dirs, project_dir_exists, targets, queue, device,
                 host_env, compiled>>

\* os::open_file_with("Xcode", config.project_dir())
OpenInXcode ==
  /\ pc = "open_in_xcode"
  /\ \E ok \in BOOLEAN :
       /\ log' = Append(log, Ev("open_file_with", project_dir, ok, ""))
       /\ Finish(IF ok THEN OkResult ELSE Err("OpenFailed", ""))
  /\ UNCHANGED <<command, dirs, project_dir_exists, targets, queue, device,
                 host_env, compiled>>

\* Command::List
DeviceList ==
  /\ pc = "device_list"
  /\ \E ok \in BOOLEAN :
       /\ log' = Append(log, Ev("device_list", "", ok, ""))
       /\ Finish(IF ok THEN OkResult ELSE Err("ListFailed", ""))
  /\ UNCHANGED <<command, dirs, project_dir_exists, targets, queue, device,
                 host_env, compiled>>

\* with_config: load the configuration, then the head of the command's
\* closure up to its first collaborator call.
LoadOrGen ==
  /\ pc = "load_or_gen"
  /\ \E ok \in BOOLEAN :
       /\ log' = Append(log, Ev("load_or_gen", "", ok, ""))
       /\ IF ~ok THEN Finish(Err("ConfigFailed", ""))
          ELSE IF LoadsMetadata(command.cmd) THEN Goto("metadata_load")
          ELSE IF EnsuresInit(command.cmd)
                  /\ ensure_init(project_dir_exists) # OkResult
          THEN Finish(ensure_init(project_dir_exists))
          ELSE Goto(CASE command.cmd = "open" -> "open_in_xcode"
                      [] command.cmd = "run" -> "device_prompt"
                      [] OTHER -> "call_for_targets")
  /\ UNCHANGED <<command, dirs, project_dir_exists, targets, queue, device,
                 host_env, compiled>>

\* with_config_and_metadata: OmniMetadata::load
MetadataLoad ==
  /\ pc = "metadata_load"
  /\ \E ok \in BOOLEAN :
       /\ log' = Append(log, Ev("metadata_load", "", ok, ""))
       /\ IF ~ok THEN Finish(Err("MetadataFailed", ""))
          ELSE Goto(IF command.cmd = "check" THEN "call_for_targets"
                    ELSE "home_dir")
  /\ UNCHANGED <<command, dirs, project_dir_exists, targets, queue, device,
                 host_env, compiled>>

\* call_for_targets_with_fallback, explicit keys: every key is looked up in
\* the registry, one invalid key fails the whole selection.
SelectExplicit ==
  /\ pc = "call_for_targets"
  /\ ~UsesFallback(command.targets)
  /\ log' = Append(log, Ev("get_targets", "", ~HasInvalidKey(command.targets), ""))
  /\ IF HasInvalidKey(command.targets)
     THEN /\ Finish(Err("TargetInvalid", FirstInvalidKey(command.targets)))
          /\ UNCHANGED <<targets, queue>>
     ELSE /\ targets' = Dedup(command.targets)
          /\ StartLoop(Dedup(command.targets), "stage")
  /\ UNCHANGED <<command, dirs, project_dir_exists, device, host_env, compiled>>

\* call_for_targets_with_fallback, no explicit key: the target of the
\* detected device, else every target of the registry.
SelectFallback ==
  /\ pc = "call_for_targets"
  /\ UsesFallback(command.targets)
  /\ \E outcome \in DeviceOutcomes :
       LET detected == detect_target_ok(outcome)
           set == IF detected # NoTarget THEN <<detected>> ELSE name_list
       IN  /\ log' = log \o << Ev("get_targets", "", TRUE, ""),
                               Ev("device_prompt", outcome.val, outcome.ok, "") >>
           /\ targets' = set
           /\ StartLoop(set, "stage")
  /\ UNCHANGED <<command, dirs, project_dir_exists, device, host_env, compiled>>

\* Command::Check: target.check(..).map_err(Error::CheckFailed)
CheckTarget ==
  /\ pc = "stage"
  /\ command.cmd = "check"
  /\ \E ok \in BOOLEAN :
       /\ log' = Append(log, Ev("check", Head(queue), ok, ""))
       /\ IF ok THEN Advance("stage")
          ELSE Finish(Err("CheckFailed", Head(queue))) /\ queue' = queue
  /\ UNCHANGED <<command, dirs, project_dir_exists, targets, device, host_env,
                 compiled>>

\* Variant of BuildTarget whose archive closure drops the `?` after build.
BuildTargetUnchecked ==
  /\ pc = "stage"
  /\ command.cmd \in {"build", "archive"}
  /\ \E ok \in BOOLEAN :
       /\ log' = Append(log, Ev("build", Head(queue), ok, Profile))
       /\ IF command.cmd = "archive" THEN Goto("archive") /\ queue' = queue
          ELSE IF ok THEN Advance("stage")
          ELSE Finish(Err("BuildFailed", Head(queue))) /\ queue' = queue
  /\ UNCHANGED <<command, dirs, project_dir_exists, targets, device, host_env,
                 compiled>>

\* Command::Build, and the first half of the Command::Archive closure:
\* target.build(..).map_err(Error::BuildFailed)
BuildTarget ==
  /\ pc = "stage"
  /\ command.cmd \in {"build", "archive"}
  /\ \E ok \in BOOLEAN :
       /\ log' = Append(log, Ev("build", Head(queue), ok, Profile))
       /\ IF ~ok THEN Finish(Err("BuildFailed", Head(queue))) /\ queue' = queue
          ELSE IF command.cmd = "archive" THEN Goto("archive") /\ queue' = queue
          ELSE Advance("stage")
  /\ UNCHANGED <<command, dirs, project_dir_exists, targets, device, host_env,
                 compiled>>

\* Second half of the Command::Archive closure:
\* target.archive(..).map_err(Error::ArchiveFailed)
ArchiveTarget ==
  /\ pc = "archive"
  /\ \E ok \in BOOLEAN :
       /\ log' = Append(log, Ev("archive", Head(queue), ok, Profile))
       /\ IF ok THEN Advance("stage")
          ELSE Finish(Err("ArchiveFailed", Head(queue))) /\ queue' = queue
  /\ UNCHANGED <<command, dirs, project_dir_exists, targets, device, host_env,
                 compiled>>

\* Variant of DevicePrompt that goes on to run when no device was resolved.
DevicePromptLenient ==
  /\ pc = "device_prompt"
  /\ \E outcome \in DeviceOutcomes :
       /\ log' = Append(log, Ev("device_prompt", outcome.val, outcome.ok, ""))
       /\ device' = IF outcome.ok THEN outcome.val ELSE "iPhone"
       /\ Goto("run")
  /\ UNCHANGED <<command, dirs, project_dir_exists, targets, queue, host_env,
                 compiled>>

\* Command::Run: device_prompt(&env).map_err(Error::DevicePromptFailed)?
DevicePrompt ==
  /\ pc = "device_prompt"
  /\ \E outcome \in DeviceOutcomes :
       /\ log' = Append(log, Ev("device_prompt", outcome.val, outcome.ok, ""))
       /\ IF outcome.ok
          THEN device' = outcome.val /\ Goto("run")
          ELSE device' = device /\ Finish(Err("DevicePromptFailed", outcome.val))
  /\ UNCHANGED <<command, dirs, project_dir_exists, targets, queue, host_env,
                 compiled>>

\* Command::Run: device.run(..).map_err(Error::RunFailed)
RunOnDevice ==
  /\ pc = "run"
  /\ \E ok \in BOOLEAN :
       /\ log' = Append(log, Ev("run", device, ok, Profile))
       /\ Finish(IF ok THEN OkResult ELSE Err("RunFailed", device))
  /\ UNCHANGED <<command, dirs, project_dir_exists, targets, queue, device,
                 host_env, compiled>>

\* Command::XcodeScript up to the architecture loop: the home directory for
\* cargo's PATH, the three path checks, the host overlay.
XcodeSetup ==
  /\ pc = "home_dir"
  /\ \E ok \in BOOLEAN :
       /\ log' = Append(log, Ev("home_dir", "", ok, ""))
       /\ IF ~ok
          THEN Finish(Err("NoHomeDir", "")) /\ UNCHANGED <<queue, host_env>>
          ELSE IF ValidatePaths(command.sdk_root) # OkResult
          THEN /\ Finish(ValidatePaths(command.sdk_root))
               /\ UNCHANGED <<queue, host_env>>
          ELSE /\ host_env' = HostEnv(command.sdk_root)
               /\ StartLoop(command.arches, "arch_loop")
  /\ UNCHANGED <<command, dirs, project_dir_exists, targets, device, compiled>>

\* Variant of ArchStep that goes on to the next architecture after a failed
\* compile_lib.
ArchStepKeepGoing ==
  /\ pc = "arch_loop"
  /\ LET arch == Head(queue)
         triple == TripleOf(arch)
         target == IF macos_from_platform(command.platform)
                   THEN macos_target ELSE for_arch(arch)
     IN  IF triple = NoTriple \/ target = NoTarget
         THEN /\ Finish(Err("ArchInvalid", arch))
              /\ UNCHANGED <<queue, log, compiled>>
         ELSE \E ok \in BOOLEAN :
                /\ log' = Append(log, Ev("compile_lib", target, ok, Profile))
                /\ compiled' = Append(compiled,
                     [arch |-> arch, target |-> target, ok |-> ok,
                      env |-> TargetEnv(host_env, triple, command.sdk_root)])
                /\ Advance("arch_loop")
  /\ UNCHANGED <<command, dirs, project_dir_exists, targets, device, host_env>>

\* One iteration of `for arch in arches`: the triple, the target overlay,
\* the target, compile_lib.
ArchStep ==
  /\ pc = "arch_loop"
  /\ LET arch == Head(queue)
         triple == TripleOf(arch)
         target == IF macos_from_platform(command.platform)
                   THEN macos_target ELSE for_arch(arch)
     IN  IF triple = NoTriple \/ target = NoTarget
         THEN /\ Finish(Err("ArchInvalid", arch))
              /\ UNCHANGED <<queue, log, compiled>>
         ELSE \E ok \in BOOLEAN :
                /\ log' = Append(log, Ev("compile_lib", target, ok, Profile))
                /\ compiled' = Append(compiled,
                     [arch |-> arch, target |-> target, ok |-> ok,
                      env |-> TargetEnv(host_env, triple, command.sdk_root)])
                /\ IF ok THEN Advance("arch_loop")
                   ELSE Finish(Err("CompileLibFailed", target)) /\ queue' = queue
  /\ UNCHANGED <<command, dirs, project_dir_exists, targets, device, host_env>>

Next ==
  \/ EnvNew
  \/ InitExec
  \/ OpenInXcode
  \/ DeviceList
  \/ LoadOrGen
  \/ MetadataLoad
  \/ SelectExplicit
  \/ SelectFallback
  \/ CheckTarget
  \/ BuildTarget
  \/ ArchiveTarget
  \/ DevicePrompt
  \/ RunOnDevice
  \/ XcodeSetup
  \/ ArchStep

Spec == Init /\ [][Next]_vars

TypeOK ==
  /\ command \in Commands
  /\ pc \in {"start", "init_exec", "open_in_xcode", "device_list", "load_or_gen",
             "metadata_load", "call_for_targets", "stage", "archive",
             "device_prompt", "run", "home_dir", "arch_loop", "done"}
  /\ (pc = "done") = (result # NoResult)

(***************************************************************************)
(* Vocabulary of the properties.  Paths, keys and triples are spelled out  *)
(* here as the documentation gives them, independently of the operators    *)
(* above.                                                                  *)
(***************************************************************************)
Done == pc = "done"

IsXcode == command.cmd = "xcode-script"

Macos == command.platform = "macOS"

Happened(op, ok) == \E i \in 1..Len(log) : log[i].op = op /\ log[i].ok = ok

\* The xcode-script closure was entered and got past cargo's PATH.
XcodeBodyEntered == IsXcode /\ Happened("home_dir", TRUE)

SdkRootPath == command.sdk_root
IncludePath == command.sdk_root \o "/usr/include"
SiblingPath ==
  command.sdk_root \o "/../../../../MacOSX.platform/Developer/SDKs/MacOSX.sdk"

PathsValid == {SdkRootPath, IncludePath, SiblingPath} \subseteq dirs

SupportedArches == {"arm64", "x86_64"}

HasUnsupported ==
  \E i \in 1..Len(command.arches) : command.arches[i] \notin SupportedArches

FirstUnsupported ==
  CHOOSE i \in 1..Len(command.arches) :
    /\ command.arches[i] \notin SupportedArches
    /\ \A j \in 1..(i - 1) : command.arches[j] \in SupportedArches

IosTriple(arch) ==
  IF arch = "arm64" THEN "aarch64_apple_ios" ELSE "x86_64_apple_ios"

TripleKeys(t) == {"CFLAGS_" \o t, "CXXFLAGS_" \o t, "OBJC_INCLUDE_PATH_" \o t}

HostKeys ==
  {"MAC_FLAGS", "CFLAGS_x86_64_apple_darwin", "CXXFLAGS_x86_64_apple_darwin",
   "OBJC_INCLUDE_PATH_x86_64_apple_darwin", "RUST_BACKTRACE"}

HostValue(k) ==
  CASE k = "RUST_BACKTRACE" -> "1"
    [] k = "OBJC_INCLUDE_PATH_x86_64_apple_darwin" -> IncludePath
    [] OTHER -> "-isysroot " \o SiblingPath

StageOps == {"check", "build", "archive", "compile_lib"}

IsStageEvent(e) == e.op \in StageOps

StageEvents == SelectSeq(log, IsStageEvent)

StageError(op) ==
  CASE op = "check" -> "CheckFailed"
    [] op = "build" -> "BuildFailed"
    [] op = "archive" -> "ArchiveFailed"
    [] op = "compile_lib" -> "CompileLibFailed"

(***************************************************************************)
(* C1                                                                      *)
(***************************************************************************)
\* C1 as stated: with the three paths valid, an architecture list holding an
\* unsupported name ends in ArchInvalid naming it, and compile_lib was
\* invoked for no architecture of the call, wherever the name stands
\* (runs in which a compile_lib call itself failed are left aside).
C1_AsStated ==
  (Done /\ XcodeBodyEntered /\ PathsValid /\ HasUnsupported
        /\ ~Happened("compile_lib", FALSE)) =>
     /\ result.tag = "ArchInvalid"
     /\ result.arg \notin SupportedArches
     /\ compiled = <<>>

\* C1 amended: with the three paths valid and an unsupported name in the
\* list, compile_lib is invoked only for the architectures before the first
\* unsupported name, in list order; the command ends in ArchInvalid naming
\* the first unsupported name when each of those compiles succeeded, and in
\* the CompileLibFailed of the failing compile otherwise.
C1_FailFastFromFirstUnsupported ==
  (XcodeBodyEntered /\ PathsValid /\ HasUnsupported) =>
     /\ Len(compiled) < FirstUnsupported
     /\ \A j \in 1..Len(compiled) : compiled[j].arch = command.arches[j]
     /\ Done =>
          \/ /\ result = Err("ArchInvalid", command.arches[FirstUnsupported])
             /\ Len(compiled) = FirstUnsupported - 1
             /\ \A j \in 1..Len(compiled) : compiled[j].ok
          \/ /\ result.tag = "CompileLibFailed"
             /\ compiled # <<>>
             /\ ~compiled[Len(compiled)].ok

\* An unsupported name was reached after an earlier architecture compiled.
C1_Witness ==
  /\ Done /\ XcodeBodyEntered /\ PathsValid
  /\ result.tag = "ArchInvalid"
  /\ Len(compiled) >= 1

(***************************************************************************)
(* C2                                                                      *)
(***************************************************************************)
\* C2 as stated: with a valid SDK root and usr/include and the sibling
\* MacOSX.sdk absent, xcode-script for the host platform does not fail with
\* MacosSdkRootInvalid, and xcode-script for another platform does.
C2_AsStated ==
  (Done /\ XcodeBodyEntered /\ SdkRootPath \in dirs /\ IncludePath \in dirs
        /\ SiblingPath \notin dirs) =>
     IF Macos THEN result.tag # "MacosSdkRootInvalid"
     ELSE result.tag = "MacosSdkRootInvalid"

\* C2 amended: the sibling MacOSX.sdk is required whatever the platform:
\* with a valid SDK root and usr/include and the sibling absent,
\* xcode-script fails with MacosSdkRootInvalid naming the sibling path, with
\* for_host_platform set as well as unset.
C2_HostSdkAlwaysRequired ==
  (Done /\ XcodeBodyEntered /\ SdkRootPath \in dirs /\ IncludePath \in dirs
        /\ SiblingPath \notin dirs) =>
     result = Err("MacosSdkRootInvalid", SiblingPath)

\* A host-platform build that was refused for the missing sibling SDK.
C2_Witness ==
  /\ Done /\ XcodeBodyEntered /\ Macos
  /\ SdkRootPath \in dirs /\ IncludePath \in dirs /\ SiblingPath \notin dirs
  /\ result.tag = "MacosSdkRootInvalid"

(***************************************************************************)
(* C3                                                                      *)
(***************************************************************************)
\* C3: every overlay handed to compile_lib holds, for the triple of its
\* architecture, CFLAGS_<triple> and CXXFLAGS_<triple> with value
\* "-isysroot <sdk_root>" and OBJC_INCLUDE_PATH_<triple> with the include
\* dir, on top of the host overlay.
C3_ThreeTripleKeys ==
  \A i \in 1..Len(compiled) :
     LET e == compiled[i].env
         t == IosTriple(compiled[i].arch)
     IN  /\ TripleKeys(t) \subseteq DOMAIN e
         /\ Cardinality(DOMAIN e) = Cardinality(HostKeys) + 3
         /\ e["CFLAGS_" \o t] = "-isysroot " \o SdkRootPath
         /\ e["CXXFLAGS_" \o t] = "-isysroot " \o SdkRootPath
         /\ e["OBJC_INCLUDE_PATH_" \o t] = IncludePath

(***************************************************************************)
(* C4                                                                      *)
(***************************************************************************)
\* C4: in the archive command every archive call directly follows a
\* successful build call for the same target and profile; a failed build
\* ends the command with BuildFailed for that target without any archive
\* call for it; a command that ends with Ok has built, then archived, every
\* target of the resolved set.
C4_BuildBeforeArchive ==
  command.cmd = "archive" =>
     /\ \A i \in 1..Len(log) :
          log[i].op = "archive" =>
             /\ i > 1
             /\ log[i - 1].op = "build"
             /\ log[i - 1].ok
             /\ log[i - 1].arg = log[i].arg
             /\ log[i - 1].profile = log[i].profile
     /\ \A i \in 1..Len(log) :
          (log[i].op = "build" /\ ~log[i].ok) =>
             /\ Done
             /\ result = Err("BuildFailed", log[i].arg)
             /\ \A j \in 1..Len(log) :
                  ~(log[j].op = "archive" /\ log[j].arg = log[i].arg)
     /\ (Done /\ result = OkResult) =>
          \A k \in 1..Len(targets) :
             \E i \in 1..Len(log) :
                /\ log[i] = Ev("build", targets[k], TRUE, command.profile)
                /\ i < Len(log)
                /\ log[i + 1] = Ev("archive", targets[k], TRUE, command.profile)

\* A build failed on the second target after the first was archived.
C4_Witness ==
  /\ command.cmd = "archive" /\ Done
  /\ result.tag = "BuildFailed"
  /\ Happened("archive", TRUE)

(***************************************************************************)
(* C5                                                                      *)
(***************************************************************************)
\* The target (architecture, for xcode-script) the n-th stage call is due on
\* when the stage runs over the resolved order one element after another.
DueAt(n) ==
  CASE command.cmd = "archive" -> targets[(n + 1) \div 2]
    [] command.cmd = "xcode-script" -> command.arches[n]
    [] OTHER -> targets[n]

CalledOn(n) ==
  IF command.cmd = "xcode-script" THEN compiled[n].arch ELSE StageEvents[n].arg

StageCallsDue ==
  CASE command.cmd = "archive" -> 2 * Len(targets)
    [] command.cmd = "xcode-script" -> Len(command.arches)
    [] OTHER -> Len(targets)

\* C5: in check, build, archive and xcode-script the stage calls follow the
\* resolved order; a failed stage call is the last stage call of the
\* command, which ends at once with that call's error for that target; a
\* command that ends with Ok made every stage call and none failed.
C5_FirstFailureAborts ==
  command.cmd \in {"check", "build", "archive", "xcode-script"} =>
     /\ Len(StageEvents) <= StageCallsDue
     /\ \A n \in 1..Len(StageEvents) : CalledOn(n) = DueAt(n)
     /\ \A n \in 1..Len(StageEvents) :
          ~StageEvents[n].ok =>
             /\ n = Len(StageEvents)
             /\ Done
             /\ result = Err(StageError(StageEvents[n].op), StageEvents[n].arg)
     /\ (Done /\ result = OkResult) =>
          /\ Len(StageEvents) = StageCallsDue
          /\ \A n \in 1..Len(StageEvents) : StageEvents[n].ok

\* A stage failed while later targets of the set were still to come.
C5_Witness ==
  /\ Done
  /\ result.tag \in {"CheckFailed", "BuildFailed", "ArchiveFailed", "CompileLibFailed"}
  /\ Len(StageEvents) < StageCallsDue
  /\ Len(queue) >= 2

(***************************************************************************)
(* C6                                                                      *)
(***************************************************************************)
\* C6: xcode-script checks the SDK root, then usr/include, then the sibling
\* host SDK root, and ends with the error of the first check that fails,
\* naming that path; when a check fails compile_lib is invoked for no
\* architecture.
C6_ValidationOrder ==
  XcodeBodyEntered =>
     /\ Done =>
          IF SdkRootPath \notin dirs
          THEN result = Err("SdkRootInvalid", SdkRootPath)
          ELSE IF IncludePath \notin dirs
          THEN result = Err("IncludeDirInvalid", IncludePath)
          ELSE IF SiblingPath \notin dirs
          THEN result = Err("MacosSdkRootInvalid", SiblingPath)
          ELSE result.tag \notin {"SdkRootInvalid", "IncludeDirInvalid",
                                  "MacosSdkRootInvalid"}
     /\ ~PathsValid =>
          /\ Done
          /\ compiled = <<>>
          /\ ~Happened("compile_lib", TRUE) /\ ~Happened("compile_lib", FALSE)

\* usr/include and the sibling SDK both missing, every architecture
\* supported: the include dir is the one reported.
C6_Witness ==
  /\ Done /\ XcodeBodyEntered
  /\ SdkRootPath \in dirs /\ IncludePath \notin dirs /\ SiblingPath \notin dirs
  /\ ~HasUnsupported
  /\ result.tag = "IncludeDirInvalid"

(***************************************************************************)
(* C7                                                                      *)
(***************************************************************************)
\* C7: every overlay handed to compile_lib holds the five host entries with
\* the host overlay's values, holds beyond them only variables keyed by the
\* triple of its own architecture and none keyed by the triple of another
\* requested architecture; the host overlay keeps its five entries while
\* the architectures are processed.
C7_OverlayPerArchitecture ==
  /\ \A i \in 1..Len(compiled) :
       LET e == compiled[i].env
           own == IosTriple(compiled[i].arch)
       IN  /\ \A k \in HostKeys :
                k \in DOMAIN e /\ e[k] = HostValue(k) /\ e[k] = host_env[k]
           /\ DOMAIN e \subseteq HostKeys \cup TripleKeys(own)
           /\ DOMAIN e # HostKeys
           /\ \A j \in 1..Len(command.arches) :
                (/\ command.arches[j] \in SupportedArches
                 /\ IosTriple(command.arches[j]) # own) =>
                   DOMAIN e \cap TripleKeys(IosTriple(command.arches[j])) = {}
  /\ pc = "arch_loop" \/ compiled # <<>> =>
       /\ DOMAIN host_env = HostKeys
       /\ \A k \in HostKeys : host_env[k] = HostValue(k)

\* Two different architectures were compiled in one call.
C7_Witness ==
  /\ Len(compiled) = 2
  /\ compiled[1].arch # compiled[2].arch

(***************************************************************************)
(* C8                                                                      *)
(***************************************************************************)
OnlyDefaultKey ==
  \A i \in 1..Len(command.targets) : command.targets[i] = "aarch64"

TargetOfDevice(d) == IF d = "iPhone" THEN "aarch64" ELSE "x86_64"

\* C8: check, build and archive given only the default key resolve a
\* device once; when that succeeds the resolved set is the device's target
\* alone and the stage is called on no other target; when it fails the
\* resolved set is the registry's canonical sequence and the command never
\* ends with DevicePromptFailed.
C8_DeviceThenAllTargets ==
  (command.cmd \in {"check", "build", "archive"} /\ OnlyDefaultKey) =>
     /\ result.tag # "DevicePromptFailed"
     /\ Cardinality({i \in 1..Len(log) : log[i].op = "device_prompt"}) <= 1
     /\ (pc \in {"stage", "archive"} \/ StageEvents # <<>>) =>
          Happened("device_prompt", TRUE) \/ Happened("device_prompt", FALSE)
     /\ \A i \in 1..Len(log) :
          log[i].op = "device_prompt" =>
             IF log[i].ok
             THEN /\ targets = << TargetOfDevice(log[i].arg) >>
                  /\ \A n \in 1..Len(StageEvents) :
                       StageEvents[n].arg = TargetOfDevice(log[i].arg)
             ELSE /\ targets = << "aarch64", "x86_64" >>
                  /\ pc # "done" \/ result.tag \in
                       {"Ok", "CheckFailed", "BuildFailed", "ArchiveFailed"}

\* Device resolution failed and the stage went through the whole registry.
C8_Witness ==
  /\ command.cmd \in {"check", "build", "archive"} /\ OnlyDefaultKey
  /\ Happened("device_prompt", FALSE)
  /\ Done /\ result = OkResult
  /\ Len(StageEvents) >= 2

(***************************************************************************)
(* C9                                                                      *)
(***************************************************************************)
\* C9: run resolves a device only after the configuration loaded and the
\* project directory was found; a failed resolution ends the command with
\* DevicePromptFailed carrying the resolver's error and without a run call;
\* there is at most one run call, on the resolved device, no target
\* selection and no other stage; a failed run ends with RunFailed.
C9_RunNeedsDevice ==
  command.cmd = "run" =>
     /\ \A i \in 1..Len(log) :
          log[i].op = "device_prompt" =>
             /\ project_dir_exists
             /\ \E j \in 1..(i - 1) : log[j].op = "load_or_gen" /\ log[j].ok
             /\ ~log[i].ok =>
                  /\ Done
                  /\ result = Err("DevicePromptFailed", log[i].arg)
                  /\ i = Len(log)
     /\ Cardinality({i \in 1..Len(log) : log[i].op = "run"}) <= 1
     /\ \A i \in 1..Len(log) :
          log[i].op = "run" =>
             /\ i > 1
             /\ log[i - 1] = Ev("device_prompt", log[i].arg, TRUE, "")
             /\ log[i].arg = device
             /\ Done
             /\ result = IF log[i].ok THEN OkResult ELSE Err("RunFailed", device)
     /\ StageEvents = <<>>
     /\ ~Happened("get_targets", TRUE) /\ ~Happened("get_targets", FALSE)
     /\ result.tag = "DevicePromptFailed" => Happened("device_prompt", FALSE)

\* Device resolution failed in a run command.
C9_Witness ==
  /\ command.cmd = "run" /\ Done
  /\ result.tag = "DevicePromptFailed"
  /\ Happened("device_prompt", FALSE)

(***************************************************************************)
(* C10                                                                     *)
(***************************************************************************)
\* C10: the first call of every command is the environment initialisation,
\* and its failure ends the command with EnvInitFailed before anything
\* else; open, build, archive and run with a loaded configuration and no
\* project directory end with ProjectDirAbsent right after the
\* configuration load; check and xcode-script never end with
\* ProjectDirAbsent and, project directory absent, go on to target
\* selection and to the xcode-script body once the metadata loaded.
C10_InitGate ==
  /\ log # <<>> => log[1].op = "env_new"
  /\ Happened("env_new", FALSE) =>
       Done /\ result.tag = "EnvInitFailed" /\ Len(log) = 1
  /\ result.tag = "EnvInitFailed" => Happened("env_new", FALSE)
  /\ (/\ command.cmd \in {"open", "build", "archive", "run"}
      /\ ~project_dir_exists
      /\ Happened("load_or_gen", TRUE)) =>
       /\ Done
       /\ result.tag = "ProjectDirAbsent"
       /\ Len(log) = 2
       /\ log[2].op = "load_or_gen"
  /\ command.cmd \in {"check", "xcode-script"} =>
       /\ result.tag # "ProjectDirAbsent"
       /\ (~project_dir_exists /\ Happened("metadata_load", TRUE)) =>
            IF command.cmd = "check"
            THEN pc = "call_for_targets" \/ Happened("get_targets", TRUE)
            ELSE pc = "home_dir" \/ Happened("home_dir", TRUE)
                                 \/ Happened("home_dir", FALSE)

\* A build stopped at the missing project directory.
C10_Witness ==
  /\ command.cmd = "build" /\ Done
  /\ ~project_dir_exists
  /\ result.tag = "ProjectDirAbsent"

====
